---------------------------- MODULE Spec2Model ----------------------------
(***************************************************************************)
(* age-github (src/main.go): a wrapper around the age tool that rewrites   *)
(* "-r @handle" recipients to the first ssh key of the github user, using  *)
(* a one hour disk cache in front of https://github.com/<handle>.keys.     *)
(*                                                                         *)
(* Byte strings.  A Go string or []byte is a sequence of chunks: a literal *)
(* chunk [s |-> "text", n |-> 1], or a run [s |-> FillChar, n |-> count]   *)
(* of count filler bytes, which lets a 70,000 byte line or a body past the *)
(* 262,144 byte limit be written down without enumerating its bytes.       *)
(* Literals never hold FillChar and neighbouring chunks of one kind are    *)
(* merged, so equal byte strings are equal values.                         *)
(***************************************************************************)
EXTENDS Integers, Sequences, FiniteSets, TLC

\* ------------------------------------------------------------------ bytes

FillChar == "A"

S(str) == IF str = "" THEN <<>> ELSE <<[s |-> str, n |-> 1]>>

Fill(n) == IF n = 0 THEN <<>> ELSE <<[s |-> FillChar, n |-> n]>>

IsRun(chunk) == chunk.s = FillChar

ChunkLen(chunk) == IF IsRun(chunk) THEN chunk.n ELSE Len(chunk.s)

\* a followed by b
Cat(a, b) ==
    IF a = <<>> THEN b
    ELSE IF b = <<>> THEN a
    ELSE LET x == a[Len(a)]
             y == b[1]
         IN  IF IsRun(x) /\ IsRun(y)
             THEN SubSeq(a, 1, Len(a) - 1) \o Fill(x.n + y.n) \o Tail(b)
             ELSE IF ~IsRun(x) /\ ~IsRun(y)
             THEN SubSeq(a, 1, Len(a) - 1) \o S(x.s \o y.s) \o Tail(b)
             ELSE a \o b

RECURSIVE ByteLen(_)
ByteLen(b) == IF b = <<>> THEN 0 ELSE ChunkLen(Head(b)) + ByteLen(Tail(b))

\* The first n bytes of one chunk, 0 < n < ChunkLen(chunk).
TakeChunk(chunk, n) == IF IsRun(chunk) THEN Fill(n) ELSE S(SubSeq(chunk.s, 1, n))

\* The chunk without its first n bytes, 0 < n < ChunkLen(chunk).
DropChunk(chunk, n) ==
    IF IsRun(chunk) THEN Fill(chunk.n - n)
    ELSE S(SubSeq(chunk.s, n + 1, Len(chunk.s)))

\* The first n bytes of b (all of b when it is shorter): b[:n], and what a
\* reader that stops after n bytes has delivered.
RECURSIVE TakeBytes(_, _)
TakeBytes(b, n) ==
    IF n <= 0 \/ b = <<>> THEN <<>>
    ELSE IF ChunkLen(Head(b)) <= n
         THEN <<Head(b)>> \o TakeBytes(Tail(b), n - ChunkLen(Head(b)))
         ELSE TakeChunk(Head(b), n)

\* b without its first n bytes: b[n:].
RECURSIVE DropBytes(_, _)
DropBytes(b, n) ==
    IF n <= 0 \/ b = <<>> THEN b
    ELSE IF ChunkLen(Head(b)) <= n
         THEN DropBytes(Tail(b), n - ChunkLen(Head(b)))
         ELSE DropChunk(Head(b), n) \o Tail(b)

\* The last byte of b, "" when b is empty.
LastByte(b) ==
    IF b = <<>> THEN ""
    ELSE LET x == b[Len(b)]
         IN  IF IsRun(x) THEN FillChar ELSE SubSeq(x.s, Len(x.s), Len(x.s))

\* The 0-based index of the first ch in the text str, -1 if there is none.
IndexInText(str, ch) ==
    IF \E k \in 1..Len(str) : SubSeq(str, k, k) = ch
    THEN (CHOOSE k \in 1..Len(str) :
              /\ SubSeq(str, k, k) = ch
              /\ \A m \in 1..(k - 1) : SubSeq(str, m, m) # ch) - 1
    ELSE -1

\* strings.IndexRune / bytes.IndexByte: the 0-based index of the first byte
\* ch of b, -1 if there is none.
RECURSIVE IndexRune(_, _)
IndexRune(b, ch) ==
    IF b = <<>> THEN -1
    ELSE LET x == Head(b)
             here == IF IsRun(x) THEN (IF ch = FillChar THEN 0 ELSE -1)
                     ELSE IndexInText(x.s, ch)
             later == IndexRune(Tail(b), ch)
         IN  IF here >= 0 THEN here
             ELSE IF later >= 0 THEN ChunkLen(x) + later
             ELSE -1

\* strings.HasPrefix
HasPrefix(s, prefix) == TakeBytes(s, ByteLen(prefix)) = prefix

\* Go's v[lo:hi] and v[lo:] on 0-based offsets.
Slice(v, lo, hi) == TakeBytes(DropBytes(v, lo), hi - lo)
SliceFrom(v, lo) == DropBytes(v, lo)

\* ------------------------------------------------------- handle validation

Lower == {"a","b","c","d","e","f","g","h","i","j","k","l","m",
          "n","o","p","q","r","s","t","u","v","w","x","y","z"}
Upper == {"A","B","C","D","E","F","G","H","I","J","K","L","M",
          "N","O","P","Q","R","S","T","U","V","W","X","Y","Z"}
Digit == {"0","1","2","3","4","5","6","7","8","9"}

\* userNameRe = ^[a-zA-Z][a-zA-Z0-9_-]+$ : one letter, then one or more of the
\* class, anchored at both ends of the text (Go's $ is the end of the text).
HandleChar == Lower \cup Upper \cup Digit \cup {"_", "-"}

ChunkIn(chunk, class) ==
    IF IsRun(chunk) THEN FillChar \in class
    ELSE \A k \in 1..Len(chunk.s) : SubSeq(chunk.s, k, k) \in class

\* userNameRe without the letter at the start: ^[a-zA-Z0-9_-]{2,}$.
userNameReAnyFirst(s) ==
    /\ ByteLen(s) >= 2
    /\ \A k \in 1..Len(s) : ChunkIn(s[k], HandleChar)

userNameRe(s) ==
    /\ ByteLen(s) >= 2
    /\ ChunkIn(TakeBytes(s, 1)[1], Lower \cup Upper)
    /\ \A k \in 1..Len(s) : ChunkIn(s[k], HandleChar)

validGithubHandle(s) == userNameRe(s)

isRecipientFlag(s) ==
    s \in {S("-r"), S("--r"), S("-recipient"), S("--recipient")}

\* ------------------------------------------------------------ key parsing

\* bufio.MaxScanTokenSize, the limit of the bufio.Scanner that
\* parseReaderToKeys creates: a line that does not fit this many bytes
\* together with its newline ends the scan with bufio.ErrTooLong.
MaxScanTokenSize == 65536

\* The cap of parseReaderToKeys on the keys it returns.
MaxKeys == 10

\* An error value: its message and the argument formatted into it.
Error(msg, arg) == [msg |-> msg, arg |-> arg]

NoErr == Error("nil", <<>>)
ErrTooLong == Error("bufio.Scanner: token too long", <<>>)
ErrRead == Error("read error", <<>>)

\* A reader: the bytes it delivers, whether it then fails (a network read
\* error instead of EOF), and whether it reports its end together with its
\* last bytes (an HTTP body may; bytes.Reader never does).
Reader(data, fails, endWithData) ==
    [data |-> data, fails |-> fails, endWithData |-> endWithData]

BytesReader(data) == Reader(data, FALSE, FALSE)

\* bufio.ScanLines' dropCR.
dropCR(tok) ==
    IF LastByte(tok) = "\r" THEN TakeBytes(tok, ByteLen(tok) - 1) ELSE tok

\* One call of scanner.Scan() with pos bytes of the reader consumed: the
\* token (scanner.Text()), the bytes consumed after it, and scanner.Err()
\* when it returns false.  A line is found when it fits the buffer together
\* with its newline; the rest of the reader is a line once its end is seen.
Scan(r, pos) ==
    LET rest == DropBytes(r.data, pos)
        k == IndexRune(rest, "\n")
        endErr == IF r.fails THEN ErrRead ELSE NoErr
    IN  IF k >= 0 /\ k + 1 <= MaxScanTokenSize
        THEN [ok |-> TRUE, tok |-> dropCR(TakeBytes(rest, k)),
              next |-> pos + k + 1, err |-> NoErr]
        ELSE IF k >= 0
        THEN [ok |-> FALSE, tok |-> <<>>, next |-> pos, err |-> ErrTooLong]
        ELSE IF rest = <<>>
        THEN [ok |-> FALSE, tok |-> <<>>, next |-> pos, err |-> endErr]
        ELSE IF \/ ByteLen(rest) > MaxScanTokenSize
                \/ ByteLen(rest) = MaxScanTokenSize /\ ~r.endWithData
        THEN [ok |-> FALSE, tok |-> <<>>, next |-> pos, err |-> ErrTooLong]
        ELSE [ok |-> TRUE, tok |-> dropCR(rest),
              next |-> pos + ByteLen(rest), err |-> NoErr]

\* The loop of parseReaderToKeys with pos bytes consumed and out collected so
\* far.  upto is the number of bytes the scanner has had to read.
\* parseLoop without the stop at MaxKeys keys.
RECURSIVE parseLoopUnbounded(_, _, _)
parseLoopUnbounded(r, pos, out) ==
    LET sc == Scan(r, pos)
    IN  IF sc.ok
        THEN parseLoopUnbounded(r, sc.next,
                                IF HasPrefix(sc.tok, S("ssh-"))
                                THEN Append(out, sc.tok) ELSE out)
        ELSE IF sc.err # NoErr
             THEN [keys |-> <<>>, err |-> sc.err, upto |-> ByteLen(r.data)]
             ELSE [keys |-> out, err |-> NoErr, upto |-> ByteLen(r.data)]

RECURSIVE parseLoop(_, _, _)
parseLoop(r, pos, out) ==
    LET sc == Scan(r, pos)
    IN  IF sc.ok
        THEN IF Len(out) = MaxKeys
             THEN [keys |-> out, err |-> NoErr, upto |-> sc.next]
             ELSE parseLoop(r, sc.next,
                            IF HasPrefix(sc.tok, S("ssh-"))
                            THEN Append(out, sc.tok) ELSE out)
        ELSE IF sc.err # NoErr
             THEN [keys |-> <<>>, err |-> sc.err, upto |-> ByteLen(r.data)]
             ELSE [keys |-> out, err |-> NoErr, upto |-> ByteLen(r.data)]

parseReaderToKeys(r) == parseLoop(r, 0, <<>>)

\* ------------------------------------------------------------- disk cache

\* time.Hour in seconds, the unit of now and of a file's mtime.
Hour == 3600

ErrNotExist == Error("file does not exist", <<>>)
ErrIO == Error("input/output error", <<>>)

\* fmt.Sprintf("%x", sha1.Sum([]byte(key))): the digest is taken to be free of
\* collisions, so the file name determines the key.
Sha1Hex(key) == <<"sha1", key>>

\* filepath.Join
Join(dir, name) == <<dir, name>>

NoFiles == [p \in {} |-> {}]

WriteFile(files, path, data, mtime) ==
    [p \in DOMAIN files \cup {path} |->
        IF p = path THEN [data |-> data, mtime |-> mtime] ELSE files[p]]

\* cacheGet without the test for a stale entry.
cacheGetNoExpiry(c, key, files, t, readOk) ==
    LET filename == Join(c, Sha1Hex(key))
    IN  IF c = "" THEN [data |-> <<>>, err |-> ErrNotExist]
        ELSE IF filename \notin DOMAIN files
             THEN [data |-> <<>>, err |-> ErrNotExist]
        ELSE IF ~readOk THEN [data |-> <<>>, err |-> ErrIO]
        ELSE [data |-> files[filename].data, err |-> NoErr]

\* cacheDir.get at time t on the file system files; readOk is whether
\* ioutil.ReadFile succeeds on a file that os.Stat found.
cacheGet(c, key, files, t, readOk) ==
    LET filename == Join(c, Sha1Hex(key))
    IN  IF c = "" THEN [data |-> <<>>, err |-> ErrNotExist]
        ELSE IF filename \notin DOMAIN files
             THEN [data |-> <<>>, err |-> ErrNotExist]
        ELSE IF files[filename].mtime + Hour < t   \* stale entry
             THEN [data |-> <<>>, err |-> ErrNotExist]
        ELSE IF ~readOk THEN [data |-> <<>>, err |-> ErrIO]
        ELSE [data |-> files[filename].data, err |-> NoErr]

\* What the operating system may do to one cacheDir.put: "ok"; "mkdir",
\* os.MkdirAll fails; "open", the file cannot be opened for writing; "short",
\* the write fails after the file was truncated and half of data written.
PutOutcomes == {"ok", "mkdir", "open", "short"}

\* cachePut that writes the file under its bare name, not inside c.
cachePutUnjoined(c, key, data, files, t, outcome) ==
    LET filename == Join("", Sha1Hex(key))
    IN  IF c = "" THEN [files |-> files, err |-> NoErr]
        ELSE IF outcome \in {"mkdir", "open"}
             THEN [files |-> files, err |-> ErrIO]
        ELSE IF outcome = "short"
             THEN [files |-> WriteFile(files, filename,
                                 TakeBytes(data, ByteLen(data) \div 2), t),
                   err |-> ErrIO]
        ELSE [files |-> WriteFile(files, filename, data, t), err |-> NoErr]

\* cacheDir.put at time t: the file system afterwards and the error returned.
cachePut(c, key, data, files, t, outcome) ==
    LET filename == Join(c, Sha1Hex(key))
    IN  IF c = "" THEN [files |-> files, err |-> NoErr]
        ELSE IF outcome \in {"mkdir", "open"}
             THEN [files |-> files, err |-> ErrIO]
        ELSE IF outcome = "short"
             THEN [files |-> WriteFile(files, filename,
                                 TakeBytes(data, ByteLen(data) \div 2), t),
                   err |-> ErrIO]
        ELSE [files |-> WriteFile(files, filename, data, t), err |-> NoErr]

\* ----------------------------------------------------------- key resolver

\* The limit of io.LimitReader on the response body, 1<<18.
BodyLimit == 262144

StatusOK == 200

ErrInvalidHandle == Error("not a valid github user name", <<>>)
ErrTransport == Error("Get: request failed", <<>>)

\* An HTTP exchange as http.DefaultClient.Do sees it: a transport failure
\* (no connection, the 10 second deadline), or a response with its status,
\* Content-Type and body, whose reading may fail after the body's bytes.
Response(code, status, ctype, body, fails, endWithData) ==
    [ok |-> TRUE, code |-> code, status |-> status, ctype |-> ctype,
     body |-> body, fails |-> fails, endWithData |-> endWithData]

TransportFailure ==
    [ok |-> FALSE, code |-> 0, status |-> <<>>, ctype |-> <<>>,
     body |-> <<>>, fails |-> FALSE, endWithData |-> FALSE]

\* io.LimitReader(resp.Body, 1<<18): at most BodyLimit bytes; a failure or an
\* end reported with the last bytes is seen only if the limit has not cut
\* the body before it.
LimitReader(resp) ==
    Reader(TakeBytes(resp.body, BodyLimit),
           resp.fails /\ ByteLen(resp.body) <= BodyLimit,
           resp.endWithData /\ ByteLen(resp.body) <= BodyLimit)

\* fetchFromCache that goes on to the network after a cache hit.
fetchFromCacheRevalidate(username, c, files, t, readOk) ==
    IF ~validGithubHandle(username)
    THEN [returns |-> TRUE, looked |-> FALSE, hit |-> FALSE,
          keys |-> <<>>, err |-> ErrInvalidHandle]
    ELSE [returns |-> FALSE, looked |-> TRUE, hit |-> FALSE,
          keys |-> <<>>, err |-> NoErr]

\* fetchFromCache without the validation of the handle.
fetchFromCacheUnchecked(username, c, files, t, readOk) ==
    LET got == cacheGet(c, username, files, t, readOk)
    IN  IF got.err = NoErr
        THEN LET p == parseReaderToKeys(BytesReader(got.data))
             IN  [returns |-> TRUE, looked |-> TRUE, hit |-> TRUE,
                  keys |-> p.keys, err |-> p.err]
        ELSE [returns |-> FALSE, looked |-> TRUE, hit |-> FALSE,
              keys |-> <<>>, err |-> NoErr]

\* fetchGithubKeys up to the cache lookup (lines 93-100): the result when
\* the call returns from there, or hit = FALSE when it goes on to the network.
fetchFromCache(username, c, files, t, readOk) ==
    IF ~validGithubHandle(username)
    THEN [returns |-> TRUE, looked |-> FALSE, hit |-> FALSE,
          keys |-> <<>>, err |-> ErrInvalidHandle]
    ELSE LET got == cacheGet(c, username, files, t, readOk)
         IN  IF got.err = NoErr
             THEN LET p == parseReaderToKeys(BytesReader(got.data))
                  IN  [returns |-> TRUE, looked |-> TRUE, hit |-> TRUE,
                       keys |-> p.keys, err |-> p.err]
             ELSE [returns |-> FALSE, looked |-> TRUE, hit |-> FALSE,
                   keys |-> <<>>, err |-> NoErr]

\* fetchFromNetwork that returns the error of cacheDir.put.
fetchFromNetworkPutFatal(username, c, files, t, resp, p, outcome, teeAll) ==
    IF ~resp.ok
    THEN [keys |-> <<>>, err |-> ErrTransport, put |-> FALSE,
          buf |-> <<>>, putErr |-> NoErr, files |-> files]
    ELSE IF resp.code # StatusOK
    THEN [keys |-> <<>>, err |-> Error("unexpected response code %q", resp.status),
          put |-> FALSE, buf |-> <<>>, putErr |-> NoErr, files |-> files]
    ELSE IF ~HasPrefix(resp.ctype, S("text/plain"))
    THEN [keys |-> <<>>, err |-> Error("unexpected content type %q", resp.ctype),
          put |-> FALSE, buf |-> <<>>, putErr |-> NoErr, files |-> files]
    ELSE IF p.err # NoErr
    THEN [keys |-> <<>>, err |-> p.err, put |-> FALSE,
          buf |-> <<>>, putErr |-> NoErr, files |-> files]
    ELSE LET data == LimitReader(resp).data
             buf == IF teeAll THEN data ELSE TakeBytes(data, p.upto)
             w == cachePut(c, username, buf, files, t, outcome)
         IN  [keys |-> IF w.err = NoErr THEN p.keys ELSE <<>>, err |-> w.err,
              put |-> TRUE, buf |-> buf, putErr |-> w.err, files |-> w.files]

\* fetchFromNetwork with the body stored before the Content-Type is looked
\* at.
fetchFromNetworkStoreFirst(username, c, files, t, resp, p, outcome, teeAll) ==
    IF ~resp.ok
    THEN [keys |-> <<>>, err |-> ErrTransport, put |-> FALSE,
          buf |-> <<>>, putErr |-> NoErr, files |-> files]
    ELSE IF resp.code # StatusOK
    THEN [keys |-> <<>>, err |-> Error("unexpected response code %q", resp.status),
          put |-> FALSE, buf |-> <<>>, putErr |-> NoErr, files |-> files]
    ELSE IF p.err # NoErr
    THEN [keys |-> <<>>, err |-> p.err, put |-> FALSE,
          buf |-> <<>>, putErr |-> NoErr, files |-> files]
    ELSE LET data == LimitReader(resp).data
             buf == IF teeAll THEN data ELSE TakeBytes(data, p.upto)
             w == cachePut(c, username, buf, files, t, outcome)
         IN  IF ~HasPrefix(resp.ctype, S("text/plain"))
             THEN [keys |-> <<>>,
                   err |-> Error("unexpected content type %q", resp.ctype),
                   put |-> TRUE, buf |-> buf, putErr |-> w.err,
                   files |-> w.files]
             ELSE [keys |-> p.keys, err |-> NoErr, put |-> TRUE, buf |-> buf,
                   putErr |-> w.err, files |-> w.files]

\* fetchGithubKeys from the response on (lines 106-123).  p is the result of
\* parseReaderToKeys on the body behind io.LimitReader.  teeAll: whether the
\* scanner had read the whole limited body into buf when parseReaderToKeys
\* returned (it reads ahead in chunks), or no more than the lines it scanned.
fetchFromNetwork(username, c, files, t, resp, p, outcome, teeAll) ==
    IF ~resp.ok
    THEN [keys |-> <<>>, err |-> ErrTransport, put |-> FALSE,
          buf |-> <<>>, putErr |-> NoErr, files |-> files]
    ELSE IF resp.code # StatusOK
    THEN [keys |-> <<>>, err |-> Error("unexpected response code %q", resp.status),
          put |-> FALSE, buf |-> <<>>, putErr |-> NoErr, files |-> files]
    ELSE IF ~HasPrefix(resp.ctype, S("text/plain"))
    THEN [keys |-> <<>>, err |-> Error("unexpected content type %q", resp.ctype),
          put |-> FALSE, buf |-> <<>>, putErr |-> NoErr, files |-> files]
    ELSE IF p.err # NoErr
    THEN [keys |-> <<>>, err |-> p.err, put |-> FALSE,
          buf |-> <<>>, putErr |-> NoErr, files |-> files]
    ELSE LET data == LimitReader(resp).data
             buf == IF teeAll THEN data ELSE TakeBytes(data, p.upto)
             w == cachePut(c, username, buf, files, t, outcome)
         IN  [keys |-> p.keys, err |-> NoErr, put |-> TRUE, buf |-> buf,
              putErr |-> w.err, files |-> w.files]

\* ------------------------------------------------------ argument rewriter

\* Classify without the test of the preceding token: every "@" token after
\* the first is taken for a placeholder.
ClassifyAnyAt(argv, i) ==
    LET v == argv[i]
        j == IndexRune(v, "=")
    IN  IF HasPrefix(v, S("@")) /\ i > 1
        THEN [form |-> "two", user |-> SliceFrom(v, 1)]
        ELSE IF j > 0 /\ isRecipientFlag(Slice(v, 0, j))
             THEN LET flagArg == SliceFrom(v, j + 1)
                  IN  IF ~HasPrefix(flagArg, S("@"))
                      THEN [form |-> "passEq", user |-> <<>>]
                      ELSE [form |-> "equals", user |-> SliceFrom(flagArg, 1)]
             ELSE [form |-> "plain", user |-> <<>>]

\* What the loop of run does with args[i] (1-based): "two", a placeholder
\* after a recipient flag; "equals", flag=@handle; "passEq", flag=value
\* without @; "plain", anything else.  user is the handle to resolve.
Classify(argv, i) ==
    LET v == argv[i]
        j == IndexRune(v, "=")
    IN  IF HasPrefix(v, S("@")) /\ i > 1 /\ isRecipientFlag(argv[i - 1])
        THEN [form |-> "two", user |-> SliceFrom(v, 1)]
        ELSE IF j > 0 /\ isRecipientFlag(Slice(v, 0, j))
             THEN LET flagArg == SliceFrom(v, j + 1)
                  IN  IF ~HasPrefix(flagArg, S("@"))
                      THEN [form |-> "passEq", user |-> <<>>]
                      ELSE [form |-> "equals", user |-> SliceFrom(flagArg, 1)]
             ELSE [form |-> "plain", user |-> <<>>]

IsPlaceholder(argv, i) == Classify(argv, i).form \in {"two", "equals"}

HasPlaceholder(argv) == \E k \in 1..Len(argv) : IsPlaceholder(argv, k)

\* Replacement with the last key of the list in the two-token form.
ReplacementLastKey(form, keys) ==
    IF form = "two" THEN <<keys[Len(keys)]>> ELSE <<S("-r"), keys[1]>>

\* Replacement that writes the key alone in the equals form too.
ReplacementInPlace(form, keys) == <<keys[1]>>

\* The tokens run appends for a resolved placeholder.
Replacement(form, keys) ==
    IF form = "two" THEN <<keys[1]>> ELSE <<S("-r"), keys[1]>>

\* An error returned by run: the message, the handle formatted into it and
\* the wrapped error.
RunError(msg, user, cause) == [msg |-> msg, user |-> user, cause |-> cause]

NoRunErr == RunError("nil", <<>>, NoErr)
ErrUsage == RunError("usage", <<>>, NoErr)
ErrLookPath == RunError("exec: \"age\": executable file not found in $PATH",
                        <<>>, NoErr)
ErrExec == RunError("exec failed", <<>>, NoErr)
ErrFetching(user, cause) ==
    RunError("fetching keys for github user %q: %w", user, cause)
ErrNoKeys(user) == RunError("no keys found for github user %q", user, NoErr)

\* ----------------------------------------------------------------- inputs

\* The longest argument vector explored.
MaxArgs == 3

\* The number of times the clock advances during one invocation.
MaxTicks == 1

\* The longest argument vector of placeholders explored against every
\* response of the server, and against failing cache writes and an
\* advancing clock.
MaxLookups == 2

Tokens ==
    {S("-r"), S("--recipient"), S("f"), S("@al"), S("@1abc"),
     S("-r=@al"), S("--r=@bo"), S("-recipient=k")}

ArgvSet == UNION {[1..n -> Tokens] : n \in 0..MaxArgs}

LookupArgv ==
    UNION {[1..n -> {S("-r=@al"), S("--r=@bo"), S("--recipient=@")}] :
             n \in 1..MaxLookups}

AgeBin == S("/usr/bin/age")
UserCacheRoot == "/home/u/.cache"

BodyTwo == S("ssh-k1\nssh-k2\n")
BodyNone == S("Not a key\n")
BodyMany ==
    S("ssh-a\nssh-b\n#\nssh-c\nssh-d\nssh-e\nssh-f\nssh-g\nssh-h\nssh-i\nssh-j\nssh-k\nssh-l\n")
BodyLongLine == S("ssh-k6\nx") \o Fill(70000) \o S("\nssh-k7\n")
\* Four lines of 65,001 bytes, then a key line that the limit cuts.
BodyOverLimit ==
    Fill(65000) \o S("\n") \o Fill(65000) \o S("\n") \o Fill(65000) \o S("\n")
    \o Fill(65000) \o S("\nssh-k8") \o Fill(4000) \o S("\nssh-k9\n")
\* One unterminated line of exactly MaxScanTokenSize bytes.
BodyEdge == S("ssh-k3") \o Fill(MaxScanTokenSize - 6)
BodyOld == S("ssh-k0\n")

PlainText == S("text/plain; charset=utf-8")

Responses ==
    {TransportFailure,
     Response(404, S("404 Not Found"), PlainText, BodyNone, FALSE, FALSE),
     Response(200, S("200 OK"), S("text/html"), BodyTwo, FALSE, FALSE),
     Response(200, S("200 OK"), PlainText, BodyTwo, TRUE, FALSE),
     Response(200, S("200 OK"), PlainText, BodyEdge, FALSE, TRUE)}
    \cup {Response(200, S("200 OK"), PlainText, b, FALSE, FALSE) :
            b \in {BodyTwo, BodyNone, <<>>, BodyMany, BodyLongLine,
                   BodyOverLimit}}

\* The responses explored with every argument vector.
BasicResponses ==
    {TransportFailure,
     Response(200, S("200 OK"), PlainText, BodyTwo, FALSE, FALSE),
     Response(200, S("200 OK"), PlainText, BodyNone, FALSE, FALSE)}

\* What github.com may answer to a request, by the kind of server.
Answers(kind) == IF kind = "basic" THEN BasicResponses ELSE Responses

\* The outcomes a cache write may have, by the kind of disk.
Outcomes(kind) == IF kind = "reliable" THEN {"ok"} ELSE PutOutcomes

\* parseReaderToKeys on each response's limited body, computed once.
ParsedBody ==
    [resp \in Responses |-> parseReaderToKeys(LimitReader(resp))]

\* The cache files an earlier invocation may have left for the handle "al":
\* none, one exactly an hour old (fresh now, stale a second later), a
\* fresh one without any key, and one that is a second too old.
CachePath(h) == Join(UserCacheRoot \o "/age-github", Sha1Hex(h))

OldFile == WriteFile(NoFiles, CachePath(S("al")), BodyOld, 0 - Hour)

StaleFile == WriteFile(NoFiles, CachePath(S("al")), BodyOld, 0 - Hour - 1)

OldFiles ==
    {NoFiles, OldFile, WriteFile(NoFiles, CachePath(S("al")), BodyNone, 0),
     StaleFile}

TickSteps == {1, Hour + 1}

\* Payloads handed to parseReaderToKeys on its own: up to MaxHead lines of
\* every kind, then up to MaxRun key lines, then up to MaxTail lines of a
\* few kinds, with or without a newline after the last line.
MaxHead == 2
MaxRun == 11
MaxTail == 1

\* Kinds of lines: a key, "ssh-" inside the line, an empty line, a key
\* before CR LF, a key of the longest line the scanner takes, a key one byte
\* longer, a long line that is no key.
LineKinds ==
    {S("ssh-x"), S("xssh-y"), <<>>, S("ssh-c\r"),
     S("ssh-") \o Fill(MaxScanTokenSize - 5),
     S("ssh-") \o Fill(MaxScanTokenSize - 4),
     Fill(70000)}

TailKinds == {S("ssh-x"), S("xssh-y"), Fill(70000)}

\* The j-th key line of a run.
RunKey(j) == S("ssh-") \o Fill(j)

LineLists(kinds, max) == UNION {[1..n -> kinds] : n \in 0..max}

PayloadLines ==
    {head \o [j \in 1..n |-> RunKey(j)] \o tail :
        head \in LineLists(LineKinds, MaxHead),
        n \in {0} \cup ((MaxRun - 2)..MaxRun),
        tail \in LineLists(TailKinds, MaxTail)}

\* The bytes of a payload: its lines, a newline after each but the last, and
\* after the last if the payload is terminated.
RECURSIVE Serialize(_, _)
Serialize(lines, terminated) ==
    IF lines = <<>> THEN <<>>
    ELSE IF Len(lines) = 1
         THEN IF terminated THEN Cat(lines[1], S("\n")) ELSE lines[1]
    ELSE Cat(Cat(lines[1], S("\n")), Serialize(Tail(lines), terminated))

\* The result of parseReaderToKeys as the ghost variable parsed holds it.
NotParsed == [done |-> FALSE, keys |-> <<>>, err |-> NoErr, via |-> "none"]

\* The environment of the process, os.Environ() (line 89).  The program
\* never sets or clears a variable.
Environ == <<"HOME=/home/u", "PATH=/usr/bin">>

\* The result of validGithubHandle as the ghost variable verdict holds it.
NotValidated == [done |-> FALSE, valid |-> FALSE]

\* Strings handed to validGithubHandle on its own: every list of up to
\* MaxHandleLen characters of an alphabet with letters of both cases (the
\* filler byte among them), a digit, the two symbols of the class, and
\* characters outside the class, a line end among them.
MaxHandleLen == 3
HandleAlphabet == {"a", "Q", "A", "0", "_", "-", ".", "@", "\n"}
HandleInputs ==
    UNION {[1..n -> HandleAlphabet] : n \in 0..MaxHandleLen}

\* The Go string of a list of characters.
RECURSIVE StringOf(_)
StringOf(chars) ==
    IF chars = <<>> THEN <<>>
    ELSE Cat(S(Head(chars)), StringOf(Tail(chars)))

\* ------------------------------------------------------------------ state

VARIABLES
    args,         \* os.Args[1:]
    lookPathOk,   \* whether exec.LookPath("age") finds the binary
    userCacheDir, \* what os.UserCacheDir returns: [dir, ok]
    execOk,       \* whether syscall.Exec will succeed
    server,       \* the kind of server: "basic" or "any" (see Answers)
    disk,         \* the kind of disk: "reliable" or "failing" (see Outcomes)
    files,        \* the cache files on disk: path -> [data, mtime]
    now,          \* the clock, in seconds
    ticksLeft,    \* how often the clock may still advance
    pc,           \* "start", "scan", "net", "exec" (replaced by age), "exit1"
    cache,        \* run's cacheDir
    i,            \* the loop of run is about to process args[i] (1-based)
    ageArgs,      \* run's ageArgs
    err,          \* the error main wrote before os.Exit(1)
    execArgv,     \* the argument vector handed to syscall.Exec
    execEnv,      \* the environment handed to syscall.Exec
    netLog,       \* the HTTP requests sent so far (their handles)
    respLog,      \* the responses to them, in the order they arrived
    cacheLog,     \* the calls of cacheDir.get and cacheDir.put so far
    resLog,       \* what each call of fetchGithubKeys returned
    payload,      \* a payload for parseReaderToKeys: [lines, terminated]
    parsed,       \* what parseReaderToKeys returned for payload
    handle,       \* a string for validGithubHandle, as a list of characters
    verdict       \* what validGithubHandle returned for handle

vars == <<args, lookPathOk, userCacheDir, execOk, server, disk, files, now, ticksLeft, pc, cache,
          i, ageArgs, err, execArgv, execEnv, netLog, respLog, cacheLog, resLog,
          payload, parsed, handle, verdict>>

\* The variables of a run of the program, those of a call of the parser on
\* its own and those of a call of the validation on its own.
runVars == <<args, lookPathOk, userCacheDir, execOk, server, disk, files, now,
             ticksLeft, pc, cache, i, ageArgs, err, execArgv, execEnv, netLog,
             respLog, cacheLog, resLog>>
parser == <<payload, parsed>>
validator == <<handle, verdict>>

env == <<args, lookPathOk, userCacheDir, execOk, server, disk>>

\* Every argument vector is run against a few responses, a disk that takes
\* every write and a clock that stands still; the vectors of placeholders
\* are run against every response, and against every outcome of a write
\* with a clock that advances.
Init ==
    /\ \/ /\ args \in ArgvSet
          /\ server = "basic"
          /\ disk = "reliable"
          /\ ticksLeft = 0
          /\ files \in {NoFiles, OldFile}
       \/ /\ args \in LookupArgv
          /\ server = "any"
          /\ disk = "reliable"
          /\ ticksLeft = 0
          /\ files \in OldFiles
       \/ /\ args \in LookupArgv
          /\ server = "basic"
          /\ disk = "failing"
          /\ ticksLeft = MaxTicks
          /\ files \in OldFiles
    /\ lookPathOk \in BOOLEAN
    /\ userCacheDir \in {[dir |-> UserCacheRoot, ok |-> TRUE],
                         [dir |-> "", ok |-> FALSE]}
    /\ execOk \in BOOLEAN
    \* no cache files without a cache root; the environment is varied only
    \* where the invocation gets far enough to depend on it
    /\ ~userCacheDir.ok => files = NoFiles
    /\ ~lookPathOk => userCacheDir.ok /\ files = NoFiles /\ execOk
    /\ ~execOk => userCacheDir.ok /\ files = NoFiles
    /\ ~HasPlaceholder(args) => userCacheDir.ok /\ files = NoFiles
    /\ now = 0
    /\ pc = "start"
    /\ cache = ""
    /\ i = 1
    /\ ageArgs = <<>>
    /\ err = NoRunErr
    /\ execArgv = <<>>
    /\ execEnv = <<>>
    /\ netLog = <<>>
    /\ respLog = <<>>
    /\ cacheLog = <<>>
    /\ resLog = <<>>
    /\ payload = [lines |-> <<>>, terminated |-> FALSE]
    /\ parsed = NotParsed
    /\ handle = <<>>
    /\ verdict = NotValidated

\* ---------------------------------------------------------------- actions

\* run returns e: main writes it to stderr and exits with status 1.
Exit1(e) ==
    /\ err' = e
    /\ pc' = "exit1"

\* Start with the binary looked up only when the process is replaced: the
\* loop runs without it.
StartLookupLate ==
    /\ pc = "start"
    /\ IF Len(args) = 0
       THEN Exit1(ErrUsage) /\ UNCHANGED <<cache, ageArgs>>
       ELSE /\ cache' = IF userCacheDir.ok /\ userCacheDir.dir # ""
                        THEN userCacheDir.dir \o "/age-github"
                        ELSE ""
            /\ ageArgs' = <<AgeBin>>
            /\ pc' = "scan"
            /\ UNCHANGED err
    /\ UNCHANGED <<env, parser, validator, files, now, ticksLeft, i, execArgv,
                   execEnv, netLog, respLog, cacheLog, resLog>>

\* Start with the binary looked up before the arguments are counted.
StartLookupFirst ==
    /\ pc = "start"
    /\ IF ~lookPathOk
       THEN Exit1(ErrLookPath) /\ UNCHANGED <<cache, ageArgs>>
       ELSE IF Len(args) = 0
       THEN Exit1(ErrUsage) /\ UNCHANGED <<cache, ageArgs>>
       ELSE /\ cache' = IF userCacheDir.ok /\ userCacheDir.dir # ""
                        THEN userCacheDir.dir \o "/age-github"
                        ELSE ""
            /\ ageArgs' = <<AgeBin>>
            /\ pc' = "scan"
            /\ UNCHANGED err
    /\ UNCHANGED <<env, parser, validator, files, now, ticksLeft, i, execArgv,
                   execEnv, netLog, respLog, cacheLog, resLog>>

\* run, lines 44-56: usage, exec.LookPath, os.UserCacheDir, ageArgs.
Start ==
    /\ pc = "start"
    /\ IF Len(args) = 0
       THEN Exit1(ErrUsage) /\ UNCHANGED <<cache, ageArgs>>
       ELSE IF ~lookPathOk
       THEN Exit1(ErrLookPath) /\ UNCHANGED <<cache, ageArgs>>
       ELSE /\ cache' = IF userCacheDir.ok /\ userCacheDir.dir # ""
                        THEN userCacheDir.dir \o "/age-github"
                        ELSE ""
            /\ ageArgs' = <<AgeBin>>
            /\ pc' = "scan"
            /\ UNCHANGED err
    /\ UNCHANGED <<env, parser, validator, files, now, ticksLeft, i, execArgv,
                   execEnv, netLog, respLog, cacheLog, resLog>>

\* Pass with the token put right after the path of the binary, before the
\* tokens written so far.
PassInFront ==
    /\ pc = "scan"
    /\ i <= Len(args)
    /\ Classify(args, i).form \in {"passEq", "plain"}
    /\ ageArgs' = <<Head(ageArgs), args[i]>> \o Tail(ageArgs)
    /\ i' = i + 1
    /\ UNCHANGED <<env, parser, validator, files, now, ticksLeft, pc, cache,
                   err, execArgv, execEnv, netLog, respLog, cacheLog, resLog>>

\* run, lines 72-74 and 87: a token that is no placeholder is appended.
Pass ==
    /\ pc = "scan"
    /\ i <= Len(args)
    /\ Classify(args, i).form \in {"passEq", "plain"}
    /\ ageArgs' = Append(ageArgs, args[i])
    /\ i' = i + 1
    /\ UNCHANGED <<env, parser, validator, files, now, ticksLeft, pc, cache,
                   err, execArgv, execEnv, netLog, respLog, cacheLog, resLog>>

\* Finish without the test for an empty list: the placeholder is dropped and
\* the loop goes on.
FinishSkippingEmpty(cl, keys, e, via) ==
    /\ resLog' = Append(resLog, [i |-> i, user |-> cl.user, keys |-> keys,
                                 err |-> e, via |-> via])
    /\ IF e # NoErr
       THEN Exit1(ErrFetching(cl.user, e)) /\ UNCHANGED <<ageArgs, i>>
       ELSE /\ ageArgs' = IF Len(keys) = 0 THEN ageArgs
                          ELSE ageArgs \o Replacement(cl.form, keys)
            /\ i' = i + 1
            /\ pc' = "scan"
            /\ UNCHANGED err

\* run, lines 61-68 and 78-85: what the loop does with the result of
\* fetchGithubKeys for the placeholder args[i].
Finish(cl, keys, e, via) ==
    /\ resLog' = Append(resLog, [i |-> i, user |-> cl.user, keys |-> keys,
                                 err |-> e, via |-> via])
    /\ IF e # NoErr
       THEN Exit1(ErrFetching(cl.user, e)) /\ UNCHANGED <<ageArgs, i>>
       ELSE IF Len(keys) = 0
       THEN Exit1(ErrNoKeys(cl.user)) /\ UNCHANGED <<ageArgs, i>>
       ELSE /\ ageArgs' = ageArgs \o Replacement(cl.form, keys)
            /\ i' = i + 1
            /\ pc' = "scan"
            /\ UNCHANGED err

\* A call of cacheDir.get or cacheDir.put: the token of args it was made
\* for, the time, the key, the payload returned or handed over, the error.
CacheCall(op, k, t, key, data, e) ==
    [op |-> op, i |-> k, at |-> t, key |-> key, data |-> data, err |-> e]

\* run reaches a placeholder and calls fetchGithubKeys, which validates the
\* handle and looks in the cache (lines 58-60, 76-77, 93-105): it returns
\* from there, or sends the request.
Resolve ==
    /\ pc = "scan"
    /\ i <= Len(args)
    /\ Classify(args, i).form \in {"two", "equals"}
    /\ \E readOk \in BOOLEAN, cl \in {Classify(args, i)} :
         \E f \in {fetchFromCache(cl.user, cache, files, now, readOk)},
            got \in {cacheGet(cache, cl.user, files, now, readOk)} :
             /\ cacheLog' = IF f.looked
                            THEN Append(cacheLog,
                                        CacheCall("get", i, now, cl.user,
                                                  got.data, got.err))
                            ELSE cacheLog
             /\ IF f.returns
                THEN /\ Finish(cl, f.keys, f.err,
                               IF f.looked THEN "cache" ELSE "invalid")
                     /\ UNCHANGED netLog
                ELSE /\ netLog' = Append(netLog, cl.user)
                     /\ pc' = "net"
                     /\ UNCHANGED <<ageArgs, i, err, resLog>>
    /\ UNCHANGED <<env, parser, validator, files, now, ticksLeft, cache,
                   execArgv, execEnv, respLog>>

\* The response arrives and fetchGithubKeys finishes (lines 106-123).  The
\* outcome of cacheDir.put and the read-ahead of the scanner are open only
\* where the call gets to them.
NetReply ==
    /\ pc = "net"
    /\ \E cl \in {Classify(args, i)}, resp \in Answers(server) :
             LET p == ParsedBody[resp]
                 stored == /\ resp.ok /\ resp.code = StatusOK
                           /\ HasPrefix(resp.ctype, S("text/plain"))
                           /\ p.err = NoErr
                 early == p.upto < ByteLen(LimitReader(resp).data)
             IN  \E outcome \in IF stored /\ cache # "" THEN Outcomes(disk)
                                ELSE {"ok"},
                    teeAll \in IF stored /\ early THEN BOOLEAN ELSE {TRUE} :
                   \E f \in {fetchFromNetwork(cl.user, cache, files, now, resp,
                                              p, outcome, teeAll)} :
                       /\ files' = f.files
                       /\ cacheLog' =
                            IF f.put
                            THEN Append(cacheLog,
                                        CacheCall("put", i, now, cl.user,
                                                  f.buf, f.putErr))
                            ELSE cacheLog
                       /\ respLog' = Append(respLog, resp)
                       /\ Finish(cl, f.keys, f.err, "net")
    /\ UNCHANGED <<env, parser, validator, now, ticksLeft, cache, execArgv,
                   execEnv, netLog>>

\* Exec with the error of syscall.Exec dropped: run returns nil and main
\* ends without a message.
ExecErrorDropped ==
    /\ pc = "scan"
    /\ i > Len(args)
    /\ execArgv' = ageArgs
    /\ execEnv' = Environ
    /\ pc' = IF execOk THEN "exec" ELSE "exit0"
    /\ UNCHANGED err
    /\ UNCHANGED <<env, parser, validator, files, now, ticksLeft, cache, i,
                   ageArgs, netLog, respLog, cacheLog, resLog>>

\* run, line 89: every token is scanned, syscall.Exec is called.
Exec ==
    /\ pc = "scan"
    /\ i > Len(args)
    /\ execArgv' = ageArgs
    /\ execEnv' = Environ
    /\ IF execOk
       THEN pc' = "exec" /\ UNCHANGED err
       ELSE Exit1(ErrExec)
    /\ UNCHANGED <<env, parser, validator, files, now, ticksLeft, cache, i,
                   ageArgs, netLog, respLog, cacheLog, resLog>>

\* Time passes while the program runs.  The clock is read only by
\* cacheDir.get (and by the file system in cacheDir.put), so it is advanced
\* only where a lookup is about to happen.
Tick ==
    /\ pc = "scan"
    /\ i <= Len(args)
    /\ IsPlaceholder(args, i)
    /\ ticksLeft > 0
    /\ \E d \in TickSteps : now' = now + d
    /\ ticksLeft' = ticksLeft - 1
    /\ UNCHANGED <<env, parser, validator, files, pc, cache, i, ageArgs, err,
                   execArgv, execEnv, netLog, respLog, cacheLog, resLog>>

Next == Start \/ Pass \/ Resolve \/ NetReply \/ Exec \/ Tick

Spec == Init /\ [][Next]_vars

\* The program is one sequential thread: each step is a bounded computation
\* or a call that returns (the request carries a ten-second deadline, lines
\* 96-97), so a step that can be taken is taken.
FairSpec == Spec /\ WF_vars(Next)

\* ------------------------------------------------- the parser on its own

\* No program is running; a payload is chosen.
InitParse ==
    /\ \E lines \in PayloadLines, terminated \in BOOLEAN :
         payload = [lines |-> lines, terminated |-> terminated]
    /\ parsed = NotParsed
    /\ args = <<>> /\ lookPathOk = TRUE /\ execOk = TRUE
    /\ userCacheDir = [dir |-> "", ok |-> FALSE]
    /\ server = "basic" /\ disk = "reliable" /\ files = NoFiles
    /\ now = 0 /\ ticksLeft = 0
    /\ pc = "parse" /\ cache = "" /\ i = 1
    /\ ageArgs = <<>> /\ err = NoRunErr /\ execArgv = <<>> /\ execEnv = <<>>
    /\ netLog = <<>> /\ respLog = <<>> /\ cacheLog = <<>> /\ resLog = <<>>
    /\ handle = <<>> /\ verdict = NotValidated

Parsed(p, via) == [done |-> TRUE, keys |-> p.keys, err |-> p.err, via |-> via]

\* parseReaderToKeys(bytes.NewReader(data)), line 99.
ParseBytes ==
    /\ pc = "parse" /\ ~parsed.done
    /\ LET data == Serialize(payload.lines, payload.terminated)
       IN  parsed' = Parsed(parseReaderToKeys(BytesReader(data)), "bytes")
    /\ UNCHANGED <<runVars, payload, validator>>

\* parseReaderToKeys on a stream (line 118) that delivers the payload whole
\* and reports its end after the last bytes or together with them.
ParseStream ==
    /\ pc = "parse" /\ ~parsed.done
    /\ \E endWithData \in BOOLEAN :
         LET data == Serialize(payload.lines, payload.terminated)
             r == Reader(data, FALSE, endWithData)
         IN  parsed' = Parsed(parseReaderToKeys(r),
                              IF endWithData THEN "stream+eof" ELSE "stream")
    /\ UNCHANGED <<runVars, payload, validator>>

NextParse == ParseBytes \/ ParseStream

SpecParse == InitParse /\ [][NextParse]_vars

\* --------------------------------------------- the validation on its own

\* No program is running; a string is chosen.
InitValidate ==
    /\ handle \in HandleInputs
    /\ verdict = NotValidated
    /\ payload = [lines |-> <<>>, terminated |-> FALSE]
    /\ parsed = NotParsed
    /\ args = <<>> /\ lookPathOk = TRUE /\ execOk = TRUE
    /\ userCacheDir = [dir |-> "", ok |-> FALSE]
    /\ server = "basic" /\ disk = "reliable" /\ files = NoFiles
    /\ now = 0 /\ ticksLeft = 0
    /\ pc = "validate" /\ cache = "" /\ i = 1
    /\ ageArgs = <<>> /\ err = NoRunErr /\ execArgv = <<>> /\ execEnv = <<>>
    /\ netLog = <<>> /\ respLog = <<>> /\ cacheLog = <<>> /\ resLog = <<>>

\* validGithubHandle(handle), line 93.
Validate ==
    /\ pc = "validate" /\ ~verdict.done
    /\ verdict' = [done |-> TRUE, valid |-> validGithubHandle(StringOf(handle))]
    /\ UNCHANGED <<runVars, parser, handle>>

NextValidate == Validate

SpecValidate == InitValidate /\ [][NextValidate]_vars

\* ----------------------------------------------------------------- claims

Range(seq) == {seq[k] : k \in 1..Len(seq)}

\* The recipient flag spellings of the specification.
FlagSpellings == {S("-r"), S("--r"), S("-recipient"), S("--recipient")}

\* args[k] is an "@" token right after a recipient flag.
TwoTokenAt(k) ==
    /\ k > 1
    /\ HasPrefix(args[k], S("@"))
    /\ args[k - 1] \in FlagSpellings

\* args[k] is flag=value for a recipient flag; flag=@handle.
EqualsAt(k) == \E fl \in FlagSpellings : HasPrefix(args[k], Cat(fl, S("=")))
EqualsPlaceholderAt(k) ==
    \E fl \in FlagSpellings : HasPrefix(args[k], Cat(fl, S("=@")))

PlaceholderAt(k) == TwoTokenAt(k) \/ EqualsPlaceholderAt(k)

\* Where the first token written for args[k] stands in the vector handed to
\* exec: after the binary path and the tokens written for args[1..k-1].
OutPos(k) ==
    1 + k + Cardinality({m \in 1..(k - 1) : EqualsPlaceholderAt(m)})

\* The vector handed to syscall.Exec, if it was called.
Execd == execArgv # <<>>

\* C1: when exec is called, every "@handle" token that follows a recipient
\* flag has been replaced by exactly one token, the first key that resolving
\* the handle returned; the flag before it and a plain token after it stand
\* unchanged next to it.
C1_TwoTokenFirstKey ==
    Execd =>
      \A k \in 1..Len(args) :
        TwoTokenAt(k) =>
          /\ \E r \in Range(resLog) :
                 /\ r.i = k
                 /\ r.user = DropBytes(args[k], 1)
                 /\ r.keys # <<>>
                 /\ execArgv[OutPos(k)] = r.keys[1]
          /\ execArgv[OutPos(k) - 1] = args[k - 1]
          /\ Len(execArgv) >= OutPos(k)
          /\ (k < Len(args) /\ ~PlaceholderAt(k + 1))
                => execArgv[OutPos(k) + 1] = args[k + 1]

\* The scenario of the specification: -r @al file, two keys resolved.
C1_Witness ==
    /\ pc = "exec"
    /\ args = <<S("-r"), S("@al"), S("f")>>
    /\ resLog = <<[i |-> 2, user |-> S("al"),
                   keys |-> <<S("ssh-k1"), S("ssh-k2")>>, err |-> NoErr,
                   via |-> "net"]>>
    /\ execArgv = <<AgeBin, S("-r"), S("ssh-k1"), S("f")>>

\* C2: when exec is called, every flag=value token of a recipient flag whose
\* value does not start with "@" stands unchanged, and every flag=@handle
\* token has been replaced by exactly two tokens, "-r" and the first key that
\* resolving the handle returned, whatever the spelling of the flag.
C2_EqualsForm ==
    Execd =>
      /\ Len(execArgv) = OutPos(Len(args) + 1) - 1
      /\ \A k \in 1..Len(args) :
           /\ (EqualsAt(k) /\ ~EqualsPlaceholderAt(k))
                 => execArgv[OutPos(k)] = args[k]
           /\ EqualsPlaceholderAt(k) =>
                /\ execArgv[OutPos(k)] = S("-r")
                /\ \E r \in Range(resLog) :
                       /\ r.i = k
                       /\ r.user = DropBytes(args[k],
                                             IndexRune(args[k], "@") + 1)
                       /\ r.keys # <<>>
                       /\ execArgv[OutPos(k) + 1] = r.keys[1]
                /\ k < Len(args) => OutPos(k + 1) = OutPos(k) + 2

\* --r=@bo f with two keys resolved, and -recipient=k passed through.
C2_Witness ==
    /\ pc = "exec"
    /\ args = <<S("--r=@bo"), S("-recipient=k"), S("f")>>
    /\ Len(resLog) = 1 /\ Len(resLog[1].keys) = 2
    /\ execArgv = <<AgeBin, S("-r"), S("ssh-k1"), S("-recipient=k"), S("f")>>

NoPlaceholder == \A k \in 1..Len(args) : ~PlaceholderAt(k)

\* C3: an argument vector without a placeholder (no "@" token right after a
\* recipient flag, no flag=@... token) is handed to exec as the binary path
\* followed by the vector token for token, no request is sent and the cache
\* is neither read nor written; the only errors are those of the start and
\* of exec itself.
C3_PassThrough ==
    NoPlaceholder =>
      /\ netLog = <<>> /\ cacheLog = <<>> /\ resLog = <<>>
      /\ pc = "scan" => ageArgs = <<AgeBin>> \o SubSeq(args, 1, i - 1)
      /\ Execd => execArgv = <<AgeBin>> \o args
      /\ err \in {NoRunErr, ErrUsage, ErrLookPath, ErrExec}

\* An "@" token first and an "@" token after a token that is no flag.
C3_Witness ==
    /\ pc = "exec"
    /\ args = <<S("@al"), S("f"), S("@1abc")>>
    /\ execArgv = <<AgeBin, S("@al"), S("f"), S("@1abc")>>
    /\ netLog = <<>> /\ cacheLog = <<>>

\* The handle of the placeholder args[k].
HandleAt(k) ==
    IF TwoTokenAt(k) THEN DropBytes(args[k], 1)
    ELSE DropBytes(args[k], IndexRune(args[k], "@") + 1)

FailedResolution(r) == r.err # NoErr \/ r.keys = <<>>

\* C4: when the resolution of a placeholder fails or returns no key, the run
\* ends there with exit status 1 and an error that names the handle ("no
\* keys found for github user <handle>" for an empty list, else the cause
\* wrapped): exec is never called, nothing is appended for that token, and
\* no later token is processed (no later lookup, request or resolution).
C4_AbortOnFailure ==
    \A n \in 1..Len(resLog) :
      LET r == resLog[n]
      IN  FailedResolution(r) =>
            /\ pc = "exit1"
            /\ ~Execd
            /\ n = Len(resLog)
            /\ i = r.i
            /\ PlaceholderAt(r.i) /\ r.user = HandleAt(r.i)
            /\ err = IF r.err = NoErr
                     THEN RunError("no keys found for github user %q",
                                   r.user, NoErr)
                     ELSE RunError("fetching keys for github user %q: %w",
                                   r.user, r.err)
            /\ Len(ageArgs) = OutPos(r.i) - 1
            /\ \A c \in Range(cacheLog) : c.i <= r.i

\* An empty list for the first of two placeholders.
C4_Witness ==
    /\ pc = "exit1"
    /\ Len(args) = 2
    /\ resLog = <<[i |-> 1, user |-> S("al"), keys |-> <<>>, err |-> NoErr,
                   via |-> "net"]>>
    /\ err = RunError("no keys found for github user %q", S("al"), NoErr)
    /\ ~Execd

\* The handle grammar of the specification: a letter, then one or more
\* letters, digits, "_" or "-".
MatchesGrammar(h) ==
    /\ ByteLen(h) >= 2
    /\ \A c \in Range(h) :
         IF IsRun(c) THEN TRUE   \* a run of the letter FillChar
         ELSE \A k \in 1..Len(c.s) :
                SubSeq(c.s, k, k) \in Lower \cup Upper \cup Digit \cup {"_", "-"}
    /\ LET first == Head(h)
       IN  IsRun(first) \/ SubSeq(first.s, 1, 1) \in Lower \cup Upper

\* C5: no request is ever sent and no cache file is ever read or written for
\* a handle outside the grammar; its resolution returns the validation error
\* at once.
C5_InvalidHandleNoAccess ==
    /\ \A h \in Range(netLog) : MatchesGrammar(h)
    /\ \A c \in Range(cacheLog) : MatchesGrammar(c.key)
    /\ \A r \in Range(resLog) :
         ~MatchesGrammar(r.user) =>
            /\ r.via = "invalid"
            /\ r.err = ErrInvalidHandle
            /\ r.keys = <<>>
            /\ \A c \in Range(cacheLog) : c.i # r.i
            /\ pc = "exit1"

\* -r @1abc: rejected with nothing sent, read or written.
C5_Witness ==
    /\ args = <<S("-r"), S("@1abc"), S("f")>>
    /\ pc = "exit1"
    /\ resLog = <<[i |-> 2, user |-> S("1abc"), keys |-> <<>>,
                   err |-> ErrInvalidHandle, via |-> "invalid"]>>
    /\ netLog = <<>> /\ cacheLog = <<>> /\ files = NoFiles

Last(seq) == seq[Len(seq)]

\* A step in which cacheDir.get is called: the call is the last of cacheLog'.
GetCalled == Len(cacheLog') > Len(cacheLog) /\ Last(cacheLog').op = "get"
PutCalled == Len(cacheLog') > Len(cacheLog) /\ Last(cacheLog').op = "put"

\* C6: when cacheDir.get returns a payload, fetchGithubKeys returns what
\* parseReaderToKeys makes of that payload, sends no request and writes no
\* file; a request is sent, and the cache written, only for a handle whose
\* lookup has just returned an error.
C6_CacheHitNoNetwork ==
    [][ /\ (GetCalled /\ Last(cacheLog').err = NoErr) =>
              LET g == Last(cacheLog')
                  p == parseReaderToKeys(BytesReader(g.data))
              IN  /\ netLog' = netLog
                  /\ files' = files
                  /\ Len(cacheLog') = Len(cacheLog) + 1
                  /\ g.data = files[CachePath(g.key)].data
                  /\ Len(resLog') = Len(resLog) + 1
                  /\ Last(resLog') = [i |-> g.i, user |-> g.key,
                                      keys |-> p.keys, err |-> p.err,
                                      via |-> "cache"]
        /\ netLog' # netLog =>
              /\ netLog' = Append(netLog, Last(cacheLog').key)
              /\ GetCalled
              /\ Last(cacheLog').err # NoErr
        /\ PutCalled =>
              /\ Last(cacheLog).op = "get"
              /\ Last(cacheLog).err # NoErr
              /\ Last(cacheLog).i = Last(cacheLog').i
              /\ Last(netLog) = Last(cacheLog').key
      ]_vars

\* -r=@al answered from the file of an hour ago, nothing sent.
C6_Witness ==
    /\ pc = "exec"
    /\ args = <<S("-r=@al")>>
    /\ cacheLog = <<CacheCall("get", 1, 0, S("al"), BodyOld, NoErr)>>
    /\ resLog = <<[i |-> 1, user |-> S("al"), keys |-> <<S("ssh-k0")>>,
                   err |-> NoErr, via |-> "cache"]>>
    /\ netLog = <<>>
    /\ files = OldFile
    /\ execArgv = <<AgeBin, S("-r"), S("ssh-k0")>>

\* cacheLog[m] is a put and cacheLog[n] the next call for the same key, a
\* get no later than an hour after the put.
PutThenGet(m, n) ==
    /\ m < n
    /\ cacheLog[m].op = "put" /\ cacheLog[n].op = "get"
    /\ cacheLog[m].key = cacheLog[n].key
    /\ \A q \in (m + 1)..(n - 1) : cacheLog[q].key # cacheLog[m].key
    /\ cacheLog[n].at <= cacheLog[m].at + Hour

RoundTrip(m, n) ==
    /\ cacheLog[n].err = NoErr
    /\ cacheLog[n].data = cacheLog[m].data

\* C7 as stated: every put(h, data) followed by get(h) within the hour
\* returns data.
C7_Original ==
    \A m, n \in 1..Len(cacheLog) : PutThenGet(m, n) => RoundTrip(m, n)

\* C7, amended: when the cache root is set and put(h, data) returns no error,
\* a get(h) that follows within the hour returns data byte for byte, unless
\* reading the file fails.
C7_RoundTrip ==
    \A m, n \in 1..Len(cacheLog) :
      ( /\ PutThenGet(m, n)
        /\ cache # ""
        /\ cacheLog[m].err = NoErr
        /\ cacheLog[n].err # ErrIO ) => RoundTrip(m, n)

\* A payload written for the first placeholder and read back, a second
\* later, for the second.
C7_Witness ==
    /\ Len(cacheLog) = 3
    /\ PutThenGet(2, 3) /\ RoundTrip(2, 3)
    /\ cache # ""
    /\ cacheLog[2].err = NoErr
    /\ cacheLog[2].data = BodyTwo
    /\ cacheLog[3].at = cacheLog[2].at + 1

\* The file of handle h is missing or older than an hour.
NoFreshFile(h) ==
    \/ cache = ""
    \/ CachePath(h) \notin DOMAIN files
    \/ files[CachePath(h)].mtime < now - Hour

\* C8: cacheDir.get returns os.ErrNotExist when the cache root is unset, the
\* file of the handle does not exist or its modification time is before now
\* minus one hour; the call of fetchGithubKeys then returns nothing from the
\* cache and sends the request.
C8_Staleness ==
    [][ (GetCalled /\ NoFreshFile(Last(cacheLog').key)) =>
           /\ Last(cacheLog').err = ErrNotExist
           /\ Last(cacheLog').data = <<>>
           /\ Last(cacheLog').at = now
           /\ resLog' = resLog
           /\ ageArgs' = ageArgs
           /\ netLog' = Append(netLog, Last(cacheLog').key)
           /\ pc' = "net"
      ]_vars

\* The intact file of al, one hour and one second old: the request is out.
C8_Witness ==
    /\ pc = "net"
    /\ now = 1
    /\ files = OldFile
    /\ cacheLog = <<CacheCall("get", 1, 1, S("al"), <<>>, ErrNotExist)>>
    /\ netLog = <<S("al")>>

\* C9: when cacheDir.put fails or the cache root is unset, the call of
\* fetchGithubKeys it was made in returns the keys of the response without
\* an error, and run goes on with them as after a successful write: the
\* first key is appended for the placeholder, or the list is empty and run
\* returns "no keys found"; no error of run comes from the write.
C9_PutFailureIgnored ==
    /\ err.cause # ErrIO
    /\ \A n \in 1..Len(cacheLog) :
         LET e == cacheLog[n]
         IN  (e.op = "put" /\ (e.err # NoErr \/ cache = "")) =>
               \E r \in Range(resLog) :
                 /\ r.i = e.i /\ r.user = e.key
                 /\ r.via = "net"
                 /\ r.err = NoErr
                 /\ r.keys # <<>> =>
                      /\ i > e.i
                      /\ ageArgs[IF TwoTokenAt(e.i) THEN OutPos(e.i)
                                  ELSE OutPos(e.i) + 1] = r.keys[1]
                 /\ r.keys = <<>> =>
                      /\ pc = "exit1"
                      /\ err = ErrNoKeys(e.key)

\* The write fails, the key is used.
C9_Witness ==
    /\ pc = "exec"
    /\ args = <<S("-r=@al")>>
    /\ Len(cacheLog) = 2
    /\ cacheLog[2].op = "put" /\ cacheLog[2].err = ErrIO
    /\ cache # ""
    /\ execArgv = <<AgeBin, S("-r"), S("ssh-k1")>>

\* A line without its line ending: the newline is no part of the elements
\* of payload.lines, a carriage return before it is dropped here.
LineText(line) ==
    IF line # <<>> /\ LastByte(line) = "\r"
    THEN TakeBytes(line, ByteLen(line) - 1) ELSE line

IsKeyLine(line) == HasPrefix(line, S("ssh-"))

\* The lines of the payload that start with "ssh-", in order.
SshLines ==
    SelectSeq([k \in 1..Len(payload.lines) |-> LineText(payload.lines[k])],
              IsKeyLine)

\* What the claim says the parser returns.
ExpectedKeys ==
    IF Len(SshLines) >= MaxKeys THEN SubSeq(SshLines, 1, MaxKeys) ELSE SshLines

\* Every line, with its newline, fits the buffer of the scanner.
AllLinesFit ==
    \A k \in 1..Len(payload.lines) :
       ByteLen(payload.lines[k]) < MaxScanTokenSize

\* C10 as stated: for every payload the parser returns the lines that start
\* with "ssh-", in order, the first 10 of them when there are 10 or more.
C10_Original == parsed.done => parsed.keys = ExpectedKeys

\* C10, amended: for every payload whose lines are each shorter than 65536
\* bytes the parser returns, without an error, the lines that start with
\* "ssh-", in order, the first 10 when there are 10 or more; a payload with a
\* longer line gives that result or the error "token too long" and no key.
\* The result never has more than 10 entries nor a line without the prefix.
C10_KeyParsing ==
    parsed.done =>
      /\ Len(parsed.keys) <= MaxKeys
      /\ \A k \in 1..Len(parsed.keys) : HasPrefix(parsed.keys[k], S("ssh-"))
      /\ AllLinesFit => parsed.err = NoErr /\ parsed.keys = ExpectedKeys
      /\ ~AllLinesFit =>
            \/ parsed.err = NoErr /\ parsed.keys = ExpectedKeys
            \/ parsed.err = ErrTooLong /\ parsed.keys = <<>>

\* Thirteen lines that start with "ssh-" after one that only contains it:
\* the first ten are returned.
C10_Witness ==
    /\ parsed.done /\ parsed.err = NoErr
    /\ AllLinesFit
    /\ Len(payload.lines) = MaxKeys + 4
    /\ payload.lines[1] = S("xssh-y")
    /\ payload.lines[2] = S("ssh-c\r")
    /\ Len(SshLines) = MaxKeys + 3
    /\ Len(parsed.keys) = MaxKeys
    /\ parsed.keys[1] = S("ssh-c")
    /\ parsed.keys = ExpectedKeys

\* Nothing of the run beyond its first step has happened: no handle was
\* resolved, the cache and the network were not touched, nothing was
\* written for the tool and the process was not replaced.
Untouched ==
    /\ netLog = <<>> /\ respLog = <<>> /\ cacheLog = <<>> /\ resLog = <<>>
    /\ cache = "" /\ ageArgs = <<>> /\ i = 1
    /\ execArgv = <<>> /\ execEnv = <<>>
    /\ now = 0

\* C11: when the binary is not found on the search path, an invocation with
\* arguments ends with the lookup error and exit status 1 at its first step:
\* no request was sent, the cache was not consulted, no handle was resolved
\* and the process was not replaced, whatever the argument vector holds,
\* placeholders included.
C11_LookupFailsFirst ==
    (~lookPathOk /\ Len(args) > 0)
      => /\ Untouched
         /\ pc \in {"start", "exit1"}
         /\ pc = "exit1" => err = ErrLookPath
         /\ pc = "start" => err = NoRunErr

\* An invocation with two placeholders ended on the failed lookup.
C11_Witness ==
    /\ ~lookPathOk
    /\ args = <<S("-r"), S("@al"), S("-r=@al")>>
    /\ pc = "exit1"
    /\ err = ErrLookPath

\* C18: an invocation without arguments ends with the usage text and exit
\* status 1 at its first step, before the binary is looked up (so also when
\* the lookup would fail); the cache, the network and exec are not touched.
C18_UsageFirst ==
    Len(args) = 0
      => /\ Untouched
         /\ pc \in {"start", "exit1"}
         /\ pc = "exit1" => err = ErrUsage
         /\ pc = "start" => err = NoRunErr

\* An invocation without arguments, with no binary to find, ended on the
\* usage text.
C18_Witness ==
    /\ args = <<>>
    /\ ~lookPathOk
    /\ pc = "exit1"
    /\ err = ErrUsage

\* The two ways an invocation ends.
Terminal == pc \in {"exec", "exit1"}

\* The process was replaced by the tool: syscall.Exec was called once every
\* token was scanned and every placeholder resolved, with the path of the
\* binary first in the rewritten vector and the environment of the process.
Replaced ==
    /\ pc = "exec"
    /\ err = NoRunErr
    /\ i = Len(args) + 1
    /\ execArgv = ageArgs
    /\ Len(execArgv) = OutPos(Len(args) + 1) - 1
    /\ execArgv[1] = AgeBin
    /\ execEnv = Environ
    /\ \A k \in 1..Len(args) :
         PlaceholderAt(k)
           => \E r \in Range(resLog) :
                r.i = k /\ r.err = NoErr /\ Len(r.keys) > 0

\* main wrote an error and exited with status 1.  The process was not
\* replaced; syscall.Exec was called only if this is its error.
Failed ==
    /\ pc = "exit1"
    /\ err # NoRunErr
    /\ err = ErrExec <=> Execd
    /\ err = ErrExec => ~execOk /\ execArgv = ageArgs /\ i = Len(args) + 1

\* The failures after which an invocation that has ended has ended in an
\* error: no arguments, no binary, a handle that is invalid or did not
\* resolve to a key, a failed syscall.Exec.
Failure ==
    \/ Len(args) = 0
    \/ ~lookPathOk
    \/ \E r \in Range(resLog) : r.err # NoErr \/ Len(r.keys) = 0
    \/ Execd /\ ~execOk

\* C12: every invocation ends, and ends in exactly one of two ways: the
\* process is replaced by the tool (once, after every token was scanned, with
\* the resolved path first in the fully rewritten vector and the environment
\* unchanged), or an error is written and the exit status is 1.  The second
\* is how it ends after a failed lookup of the binary, an invalid handle, a
\* failed resolution or a failed exec; nothing happens after either.
C12_TwoOutcomes ==
    /\ [](Terminal => (Replaced \/ Failed))
    /\ [](Terminal => (Failure <=> pc = "exit1"))
    /\ [](pc \in {"start", "scan", "net", "exec", "exit1"})
    /\ [][~Terminal]_vars
    /\ <>Terminal

\* An invocation whose placeholder was resolved ended in an error because
\* syscall.Exec failed.
C12_Witness ==
    /\ pc = "exit1"
    /\ err = ErrExec
    /\ ~execOk
    /\ args = <<S("-r"), S("@al")>>
    /\ execArgv = <<AgeBin, S("-r"), S("ssh-k1")>>

\* The characters the claim's pattern ^[A-Za-z][A-Za-z0-9_-]+$ names, among
\* those of the alphabet.
LetterChars == {"a", "Q", "A"}
DigitChars == {"0"}
ClassChars == LetterChars \cup DigitChars \cup {"_", "-"}

\* A list of characters matches the pattern: a letter, then one or more
\* characters of the class, and nothing else.
MatchesPattern(chars) ==
    /\ Len(chars) >= 2
    /\ chars[1] \in LetterChars
    /\ \A k \in 2..Len(chars) : chars[k] \in ClassChars

\* The strings the claim says are rejected: the empty one, one with a
\* character outside [A-Za-z0-9_-], one that starts with a digit or symbol.
NamedInvalid(chars) ==
    \/ chars = <<>>
    \/ \E k \in 1..Len(chars) : chars[k] \notin ClassChars
    \/ chars # <<>> /\ chars[1] \notin LetterChars

\* C13: validGithubHandle returns true for every string that matches
\* ^[A-Za-z][A-Za-z0-9_-]+$, and false for the empty string, for a string
\* with a character outside [A-Za-z0-9_-] and for a string that starts with
\* a digit or a symbol.
C13_Validation ==
    verdict.done
      => /\ MatchesPattern(handle) => verdict.valid
         /\ NamedInvalid(handle) => ~verdict.valid

\* A matching string with an upper-case letter, a symbol and a digit was
\* accepted (the cases of rejected strings are reached as well: the empty
\* string, "0a", "a.").
C13_Witness ==
    /\ verdict.done
    /\ handle = <<"Q", "-", "0">>
    /\ verdict.valid

\* A response arrived whose status is not 200 or whose Content-Type does not
\* begin with "text/plain".
Rejected(resp) ==
    /\ resp.ok
    /\ \/ resp.code # 200
       \/ ~HasPrefix(resp.ctype, S("text/plain"))

\* C14: a step in which a response arrives whose status is not 200 or whose
\* Content-Type does not begin with "text/plain" ends the resolution with an
\* error and no key, leaves the cache files as they are and calls neither
\* get nor put; a step that changes a cache file or calls put is the arrival
\* of a response with status 200 and a text/plain Content-Type whose body
\* was parsed without an error, with or without keys in it.
C14_RejectedResponses ==
    [][/\ respLog' # respLog
          => /\ respLog' = Append(respLog, Last(respLog'))
             /\ resLog' = Append(resLog, Last(resLog'))
             /\ Last(resLog').via = "net"
             /\ Rejected(Last(respLog'))
                  => /\ Last(resLog').err # NoErr
                     /\ Last(resLog').keys = <<>>
                     /\ Last(resLog').err.msg
                          = IF Last(respLog').code # 200
                            THEN "unexpected response code %q"
                            ELSE "unexpected content type %q"
                     /\ files' = files
                     /\ cacheLog' = cacheLog
                     /\ pc' = "exit1"
       /\ (files' # files \/ (cacheLog' # cacheLog /\ Last(cacheLog').op = "put"))
          => /\ respLog' # respLog
             /\ Last(respLog').ok
             /\ ~Rejected(Last(respLog'))
             /\ ~Last(respLog').fails
             /\ Last(resLog').err = NoErr
             /\ Last(cacheLog').op = "put"
             /\ Last(cacheLog').key = Last(netLog)
             /\ files' # files => Last(cacheLog').key = Last(resLog').user
      ]_vars

\* A response with another Content-Type was rejected: the stale file of its
\* handle and the file stored for the handle before it are as they were.
C14_Witness ==
    /\ args = <<S("--r=@bo"), S("-r=@al")>>
    /\ Len(respLog) = 2
    /\ respLog[1].code = 200 /\ respLog[1].body = BodyTwo
    /\ respLog[2].code = 200 /\ respLog[2].ctype = S("text/html")
    /\ files = WriteFile(StaleFile, CachePath(S("bo")), BodyTwo, 0)
    /\ pc = "exit1"
    /\ Len(resLog) = 2
    /\ resLog[2].err = Error("unexpected content type %q", S("text/html"))

\* The tokens of args processed so far without an error.
Processed == i - 1

\* C15: once run has built its vector, with the first Processed tokens of
\* args processed without an error, the vector holds 1 + Processed tokens
\* plus one for each flag=@handle placeholder among those tokens; its first
\* token is the path of the binary; every processed token that is not a
\* placeholder stands unchanged at the place its predecessors leave it (one
\* token for each of them, two for a flag=@handle placeholder), so in the
\* order of args.
C15_TokenCount ==
    ageArgs # <<>>
      => /\ Processed \in 0..Len(args)
         /\ Len(ageArgs)
              = 1 + Processed
                + Cardinality({k \in 1..Processed : EqualsPlaceholderAt(k)})
         /\ ageArgs[1] = AgeBin
         /\ \A k \in 1..Processed :
              ~PlaceholderAt(k) => ageArgs[OutPos(k)] = args[k]

\* Two of three tokens are processed, a flag=@handle placeholder and a
\* flag=value token that is none: the vector holds four tokens.
C15_Witness ==
    /\ pc = "scan"
    /\ args = <<S("-r=@al"), S("-recipient=k"), S("f")>>
    /\ i = 3
    /\ ageArgs = <<AgeBin, S("-r"), S("ssh-k1"), S("-recipient=k")>>

\* The resolution of the placeholder args[k], once it has returned.
ResolutionOf(k) == CHOOSE r \in Range(resLog) : r.i = k

\* cacheLog[m] is the cache write of a resolution that went to the network
\* and succeeded: the payload was written under the cache root.
StoredAt(m) ==
    /\ cacheLog[m].op = "put"
    /\ cacheLog[m].err = NoErr
    /\ cache # ""
    /\ ResolutionOf(cacheLog[m].i).via = "net"
    /\ ResolutionOf(cacheLog[m].i).err = NoErr

\* C16 as stated: when a resolution of a handle went to the network,
\* succeeded and wrote the cache, a later resolution of the handle within
\* the hour, whose lookup reads the file, comes from the cache and returns
\* the same list of keys without an error, also when the first parse stopped
\* at ten keys or the body was cut at 262,144 bytes.
C16_Original ==
    \A m, n \in 1..Len(cacheLog) :
      (StoredAt(m) /\ PutThenGet(m, n) /\ cacheLog[n].err # ErrIO)
        => /\ ResolutionOf(cacheLog[n].i).via = "cache"
           /\ ResolutionOf(cacheLog[n].i).err = NoErr
           /\ ResolutionOf(cacheLog[n].i).keys
                = ResolutionOf(cacheLog[m].i).keys

\* The cache works: its root is set and no call of get or put has failed.
CacheWorks ==
    /\ cache # ""
    /\ \A c \in Range(cacheLog) : c.err # ErrIO

\* The lookups of the run fall in the staleness window: every lookup comes
\* within the hour after the writes for its handle, and no file an earlier
\* invocation left has gone stale between two lookups that read it.
WithinWindow ==
    \A m, n \in 1..Len(cacheLog) :
      (m < n /\ cacheLog[m].key = cacheLog[n].key /\ cacheLog[n].op = "get")
        => /\ cacheLog[m].op = "put" => cacheLog[n].at <= cacheLog[m].at + Hour
           /\ (cacheLog[m].op = "get" /\ cacheLog[m].err = NoErr)
                => cacheLog[n].err # ErrNotExist

\* How often the handle h was requested from github.
Requests(h) == Cardinality({n \in 1..Len(netLog) : netLog[n] = h})

\* Where the key written for the placeholder args[k] stands in the vector.
KeyPos(k) == IF TwoTokenAt(k) THEN OutPos(k) ELSE OutPos(k) + 1

\* Placeholders are resolved one at a time in the order of args: the
\* resolutions returned so far are those of the placeholders before args[i]
\* in their order, and at most one request is open, for args[i].
LeftToRight ==
    /\ \A n \in 1..Len(resLog) :
         /\ resLog[n].i \in 1..Len(args)
         /\ PlaceholderAt(resLog[n].i)
         /\ resLog[n].user = HandleAt(resLog[n].i)
         /\ resLog[n].i <= i
         /\ n > 1 => resLog[n - 1].i < resLog[n].i
         /\ resLog[n].i = i => n = Len(resLog) /\ pc = "exit1"
    /\ \A k \in 1..Len(args) :
         (PlaceholderAt(k) /\ k < i) => \E r \in Range(resLog) : r.i = k
    /\ \A n \in 1..Len(cacheLog) :
         /\ cacheLog[n].i <= i
         /\ n > 1 => cacheLog[n - 1].i <= cacheLog[n].i
    /\ Len(netLog) = Len(respLog) + (IF pc = "net" THEN 1 ELSE 0)
    /\ pc = "net" => Last(netLog) = HandleAt(i)

\* No handle was requested twice.
RequestedOnce == \A h \in Range(netLog) : Requests(h) = 1

\* In the vector handed to exec every occurrence of a handle is replaced by
\* the same key.
SameKeyInVector ==
    Execd
      => \A k1, k2 \in 1..Len(args) :
           ( /\ PlaceholderAt(k1) /\ PlaceholderAt(k2)
             /\ HandleAt(k1) = HandleAt(k2) )
             => execArgv[KeyPos(k1)] = execArgv[KeyPos(k2)]

\* Once an occurrence of a handle was replaced by a key, every later
\* occurrence that was reached is a cache hit replaced by that key.
LaterOccurrencesSameKey ==
    \A m, n \in 1..Len(resLog) :
      ( /\ m < n
        /\ resLog[m].user = resLog[n].user
        /\ ~FailedResolution(resLog[m]) )
        => /\ resLog[n].via = "cache"
           /\ ~FailedResolution(resLog[n])
           /\ resLog[n].keys[1] = resLog[m].keys[1]

\* The file written for a handle stays as written while no later write for
\* that handle follows, whatever happens to later handles.
EntriesRemain ==
    \A m \in 1..Len(cacheLog) :
      ( /\ cacheLog[m].op = "put" /\ cacheLog[m].err = NoErr /\ cache # ""
        /\ \A n \in (m + 1)..Len(cacheLog) :
             ~(cacheLog[n].op = "put" /\ cacheLog[n].key = cacheLog[m].key) )
        => /\ CachePath(cacheLog[m].key) \in DOMAIN files
           /\ files[CachePath(cacheLog[m].key)]
                = [data |-> cacheLog[m].data, mtime |-> cacheLog[m].at]

\* C17 as stated: placeholders are resolved left to right, one at a time;
\* while the cache works and the lookups fall in the staleness window, no
\* handle is requested twice, the later occurrences of a handle are cache
\* hits and all its occurrences are replaced by the same key; the file
\* written for an earlier handle remains when a later handle fails.
C17_Original ==
    /\ LeftToRight
    /\ (CacheWorks /\ WithinWindow)
         => RequestedOnce /\ SameKeyInVector /\ LaterOccurrencesSameKey
    /\ EntriesRemain

=============================================================================
